---- MODULE Spec2Model ----
(***************************************************************************)
(* IFC materials summary viewer: the material aggregation of               *)
(* backend/app/services/ifc_loader.py, the per-file metadata store of      *)
(* backend/app/services/file_storage.py and the summary / GLB / CSV        *)
(* request handlers of backend/app/api.                                    *)
(*                                                                         *)
(* Two specifications share the definitions:                               *)
(*   SpecAgg  one run of process_ifc_materials, one loop iteration per     *)
(*            step, over every element sequence up to MaxElems;            *)
(*   Spec     the metadata store and the request handlers, over files      *)
(*            whose contents are drawn from ModelCatalogue.                *)
(*                                                                         *)
(* Python's Optional values are sequences of length at most one: None is   *)
(* <<>> and a present value v is <<v>>.  Strings that are compared by the  *)
(* sort are tuples of character codes.  Quantities are naturals.           *)
(***************************************************************************)
EXTENDS Integers, Sequences, FiniteSets, TLC

VARIABLES
    \* ---- one run of process_ifc_materials (SpecAgg) ----
    elements,         \* the sequence returned by get_ifcElements
    default_density,  \* the default_density argument
    idx,              \* number of elements the for-loop has consumed
    groups,           \* the groups dict, in insertion order
    result,           \* the returned list, None until the run has returned
    aggpc,            \* "loop", "done", "exported", "raised", or "off" under Spec
    \* ---- the store and the request handlers (Spec) ----
    content,          \* file id -> Option(bytes uploaded under that id)
    metadata,         \* FileStorage._metadata: file id -> Option(record)
    ifcFile,          \* file id -> the .ifc file is on disk
    glbFile,          \* file id -> the .glb file is on disk
    jsonFile,         \* file id -> Option(express_id_map written to the .json file)
    req,              \* request slot -> the handler's position and locals
    response,         \* the response the last step sent, if it sent one
    ran,              \* which model pass the last step ran, for which file and request
    csv               \* the rows export_csv wrote in the last step, header first

aggVars == <<elements, default_density, idx, groups, result, aggpc>>
storeVars == <<content, metadata, ifcFile, glbFile, jsonFile, req, response, ran>>
vars == <<elements, default_density, idx, groups, result, aggpc,
          content, metadata, ifcFile, glbFile, jsonFile, req, response, ran, csv>>

----------------------------------------------------------------------------
\* Bounds

MaxElems == 3
NumRequests == 2

----------------------------------------------------------------------------
\* Optional values

None == <<>>
Some(v) == <<v>>
Get(o) == o[1]

\* Python truthiness of an Optional number: None and 0 are falsy
Truthy(o) == o # None /\ Get(o) # 0

\* a or b
Or(a, b) == IF Truthy(a) THEN a ELSE b

----------------------------------------------------------------------------
\* Strings as tuples of character codes, compared as Python compares str

Wood == <<87, 111, 111, 100>>
Steel == <<83, 116, 101, 101, 108>>
Concrete == <<67, 111, 110, 99, 114, 101, 116, 101>>
IfcWall == <<73, 102, 99, 87, 97, 108, 108>>
IfcSlab == <<73, 102, 99, 83, 108, 97, 98>>
Unassigned == <<85, 110, 97, 115, 115, 105, 103, 110, 101, 100>>

Min(a, b) == IF a < b THEN a ELSE b

\* s < t for two strings
StrLess(s, t) ==
    \E i \in 1..(Min(Len(s), Len(t)) + 1) :
        /\ \A j \in 1..(i - 1) : s[j] = t[j]
        /\ \/ i = Len(s) + 1 /\ i <= Len(t)
           \/ i <= Len(s) /\ i <= Len(t) /\ s[i] < t[i]

----------------------------------------------------------------------------
\* Elements of a parsed model (ifcopenshell entity instances)
\*   id            element.id(), the ExpressID
\*   GlobalId      element.GlobalId
\*   cls           element.is_a()
\*   materials     the materials attached to the element
\*   materialName  get_element_value(element, "material.Name")
\*   quantities    the entries of the element's IfcElementQuantity sets,
\*                 in the order element.IsDefinedBy is scanned
\*   psets         get_psets(element), in iteration order
\*   meshes        create_shape and serializer.write succeed for the element
\*   raises        reading the element's quantities raises

Q(type, value) == [type |-> type, value |-> value]
Pset(name, data) == [name |-> name, data |-> data]

\* (A: material Wood, area 5, volume 1)
TWoodA ==
    [cls |-> IfcSlab, materials |-> {Wood}, materialName |-> Some(Wood),
     quantities |-> <<Q("IfcQuantityLength", Some(7)), Q("IfcQuantityArea", Some(5)),
                      Q("IfcQuantityVolume", Some(1)), Q("IfcQuantityArea", Some(9))>>,
     psets |-> <<>>, meshes |-> TRUE, raises |-> FALSE]

\* (B: material Wood, area 3, no volume)
TWoodB ==
    [cls |-> IfcWall, materials |-> {Wood}, materialName |-> Some(Wood),
     quantities |-> <<Q("IfcQuantityArea", Some(3))>>,
     psets |-> <<Pset(<<"Pset_", "WallCommon">>, [k \in {"NetVolume"} |-> 4])>>,
     meshes |-> TRUE, raises |-> FALSE]

\* (C: no material, class IfcWall, no area, volume 2)
TWallC ==
    [cls |-> IfcWall, materials |-> {}, materialName |-> None,
     quantities |-> <<>>,
     psets |-> <<Pset(<<"Qto_", "WallBaseQuantities">>, [k \in {"GrossVolume"} |-> 2])>>,
     meshes |-> TRUE, raises |-> FALSE]

\* material Steel, an IfcQuantityArea of exactly 0, volume 5
TSteelZero ==
    [cls |-> IfcSlab, materials |-> {Steel}, materialName |-> Some(Steel),
     quantities |-> <<Q("IfcQuantityArea", Some(0)), Q("IfcQuantityVolume", Some(5))>>,
     psets |-> <<>>, meshes |-> TRUE, raises |-> FALSE]

\* material Steel, no area (the only Qto_ area is 0, which is falsy), volume 5
TSteelVol ==
    [cls |-> IfcSlab, materials |-> {Steel}, materialName |-> Some(Steel),
     quantities |-> <<Q("IfcQuantityVolume", Some(5))>>,
     psets |-> <<Pset(<<"Qto_", "SlabBaseQuantities">>, [k \in {"NetArea"} |-> 0])>>,
     meshes |-> TRUE, raises |-> FALSE]

\* two materials in an IfcMaterialList, which has no Name; area 10, volume 2
TMulti ==
    [cls |-> IfcSlab, materials |-> {Concrete, Steel}, materialName |-> None,
     quantities |-> <<Q("IfcQuantityArea", Some(10)), Q("IfcQuantityVolume", Some(2))>>,
     psets |-> <<>>, meshes |-> TRUE, raises |-> FALSE]

\* two materials in an IfcMaterialConstituentSet named Concrete; area 10, volume 2
TMultiNamed ==
    [cls |-> IfcWall, materials |-> {Concrete, Steel}, materialName |-> Some(Concrete),
     quantities |-> <<Q("IfcQuantityArea", Some(10)), Q("IfcQuantityVolume", Some(2))>>,
     psets |-> <<>>, meshes |-> TRUE, raises |-> FALSE]

\* no material, no geometry: mesh generation fails; area 4 and volume 3 from Qto_
TNoMesh ==
    [cls |-> IfcSlab, materials |-> {}, materialName |-> None,
     quantities |-> <<>>,
     psets |-> <<Pset(<<"Qto_", "SlabBaseQuantities">>,
                      [k \in {"NetArea", "GrossArea", "NetVolume"} |->
                          IF k = "NetArea" THEN 0 ELSE IF k = "GrossArea" THEN 4 ELSE 3])>>,
     meshes |-> FALSE, raises |-> FALSE]

\* material Concrete, a malformed quantity set: reading it raises
TRaises ==
    [cls |-> IfcWall, materials |-> {Concrete}, materialName |-> Some(Concrete),
     quantities |-> <<>>, psets |-> <<>>, meshes |-> TRUE, raises |-> TRUE]

\* material Concrete, area 6; a first Qto_ set whose GrossVolume is 0 and a
\* second one whose NetVolume is 3
TZeroFirst ==
    [cls |-> IfcSlab, materials |-> {Concrete}, materialName |-> Some(Concrete),
     quantities |-> <<Q("IfcQuantityArea", Some(6))>>,
     psets |-> <<Pset(<<"Qto_", "SlabBaseQuantities">>, [k \in {"GrossVolume"} |-> 0]),
                 Pset(<<"Qto_", "BodyGeometryValidation">>, [k \in {"NetVolume"} |-> 3])>>,
     meshes |-> TRUE, raises |-> FALSE]

\* an IfcSlab whose material is named "IfcWall"; area 2, volume 1
TNamedIfcWall ==
    [cls |-> IfcSlab, materials |-> {IfcWall}, materialName |-> Some(IfcWall),
     quantities |-> <<Q("IfcQuantityArea", Some(2)), Q("IfcQuantityVolume", Some(1))>>,
     psets |-> <<>>, meshes |-> TRUE, raises |-> FALSE]

Templates ==
    {TWoodA, TWoodB, TWallC, TSteelZero, TSteelVol, TMulti, TMultiNamed, TNoMesh, TRaises,
     TZeroFirst, TNamedIfcWall}

Guid(i) == <<"GlobalId", i>>

\* the entity instances of a model whose i-th IfcElement is built from ts[i]
MkElements(ts) ==
    [i \in 1..Len(ts) |->
        [id |-> i, GlobalId |-> Guid(i), cls |-> ts[i].cls,
         materials |-> ts[i].materials, materialName |-> ts[i].materialName,
         quantities |-> ts[i].quantities, psets |-> ts[i].psets,
         meshes |-> ts[i].meshes, raises |-> ts[i].raises]]

SeqsUpTo(S, n) == UNION {[1..k -> S] : k \in 0..n}

----------------------------------------------------------------------------
\* get_ifcElement_quantities

AreaNames ==
    <<"NetSurfaceArea", "GrossSurfaceArea", "NetArea", "GrossArea", "NetSideArea",
      "GrossSideArea", "NetFloorArea", "GrossFloorArea", "Area", "OuterSurfaceArea">>
VolumeNames == <<"NetVolume", "GrossVolume">>

\* Method 1: the first entry of the given type whose value is set
RECURSIVE ScanQuantities(_, _, _)
ScanQuantities(qs, type, cur) ==
    IF qs = <<>> THEN cur
    ELSE ScanQuantities(Tail(qs), type,
            IF Head(qs).type = type /\ cur = None THEN Head(qs).value ELSE cur)

\* pset_data.get(k)
DictGet(d, k) == IF k \in DOMAIN d THEN Some(d[k]) ELSE None

\* pset_data.get(n1) or pset_data.get(n2) or ...
RECURSIVE OrChain(_, _)
OrChain(names, d) ==
    IF Len(names) = 1 THEN DictGet(d, names[1])
    ELSE Or(DictGet(d, names[1]), OrChain(Tail(names), d))

\* pset_name.startswith("Qto_")
StartsWithQto(name) == name[1] = "Qto_"

\* Method 2: the Qto_ property sets, for a value still None
RECURSIVE ScanPsets(_, _, _)
ScanPsets(ps, names, cur) ==
    IF ps = <<>> THEN cur
    ELSE ScanPsets(Tail(ps), names,
            IF StartsWithQto(Head(ps).name) /\ cur = None
            THEN OrChain(names, Head(ps).data) ELSE cur)

\* returns <<area, volume>>
get_ifcElement_quantities(element) ==
    LET area1 == ScanQuantities(element.quantities, "IfcQuantityArea", None)
        volume1 == ScanQuantities(element.quantities, "IfcQuantityVolume", None)
    IN  IF area1 = None \/ volume1 = None
        THEN <<ScanPsets(element.psets, AreaNames, area1),
               ScanPsets(element.psets, VolumeNames, volume1)>>
        ELSE <<area1, volume1>>

----------------------------------------------------------------------------
\* get_element_group_key

\* a slip: an element without a material name goes to "Unassigned"
get_element_group_key_NoFallback(element) ==
    LET material_name == element.materialName
        class_name == IF element.cls # <<>> THEN element.cls ELSE Unassigned
    IN  IF material_name # None /\ Get(material_name) # <<>>
        THEN <<0, Get(material_name), class_name>>
        ELSE <<1, Unassigned, class_name>>

\* returns <<has_material, group_name, class_name>>
get_element_group_key(element) ==
    LET material_name == element.materialName
        class_name == IF element.cls # <<>> THEN element.cls ELSE Unassigned
    IN  IF material_name # None /\ Get(material_name) # <<>>
        THEN <<0, Get(material_name), class_name>>
        ELSE <<1, class_name, class_name>>

----------------------------------------------------------------------------
\* process_ifc_materials

\* the defaultdict factory
DefaultGroup ==
    [materialGroup |-> <<>>, hasMaterial |-> 1, elementClass |-> <<>>,
     elementCount |-> 0, totalArea |-> 0, totalVolume |-> 0, totalWeight |-> 0,
     missingQuantities |-> FALSE, elementIds |-> <<>>]

\* a slip: the total is assigned, not accumulated
AddQuantity_Assign(total, q) == IF q # None THEN Get(q) ELSE total

\* groups[group_name]["totalArea"] += area, when area is not None
AddQuantity(total, q) == IF q # None THEN total + Get(q) ELSE total

\* a slip: only a missing area sets the flag
FlagMissing_AreaOnly(flag, area, volume) == flag \/ area = None

\* the two else-branches that set missingQuantities
FlagMissing(flag, area, volume) == flag \/ area = None \/ volume = None

\* position of groups[group_name] in the dict, 0 when the key is absent
GroupIndex(gs, group_name) ==
    IF \E i \in 1..Len(gs) : gs[i].materialGroup = group_name
    THEN CHOOSE i \in 1..Len(gs) : gs[i].materialGroup = group_name
    ELSE 0

\* one iteration of the for-loop over elements
AddElement(gs, element) ==
    LET q == get_ifcElement_quantities(element)
        area == q[1]
        volume == q[2]
        key == get_element_group_key(element)
        group_name == key[2]
        found == GroupIndex(gs, group_name)
        old == IF found = 0 THEN DefaultGroup ELSE gs[found]
        new == [old EXCEPT
                  !.materialGroup = group_name,
                  !.hasMaterial = key[1],
                  !.elementClass = key[3],
                  !.elementIds = Append(@, element.GlobalId),
                  !.elementCount = @ + 1,
                  !.totalArea = AddQuantity(@, area),
                  !.totalVolume = AddQuantity(@, volume),
                  !.missingQuantities = FlagMissing(@, area, volume)]
    IN  IF found = 0 THEN Append(gs, new) ELSE [gs EXCEPT ![found] = new]

\* a slip: the weight is computed without the None test
Weight_NoNoneTest(total_volume, density) ==
    Some((IF total_volume # None THEN Get(total_volume) ELSE 0) * density)

\* total_weight
Weight(total_volume, density) ==
    IF total_volume # None THEN Some(Get(total_volume) * density) ELSE None

\* the dictionary appended to result for one group
FormatGroup(data, density) ==
    LET total_area == IF data.totalArea > 0 THEN Some(data.totalArea) ELSE None
        total_volume == IF data.totalVolume > 0 THEN Some(data.totalVolume) ELSE None
        total_weight == Weight(total_volume, density)
    IN  [materialGroup |-> data.materialGroup,
         hasMaterial |-> data.hasMaterial,
         elementClass |-> data.elementClass,
         elementCount |-> data.elementCount,
         totalArea |-> total_area,
         totalVolume |-> total_volume,
         density |-> density,
         totalWeight |-> total_weight,
         missingQuantities |-> data.missingQuantities,
         elementIds |-> data.elementIds]

\* the sort of the plain-grouping variant: by group key alone
SortKeyLess_KeyOnly(x, y) == StrLess(x.materialGroup, y.materialGroup)

\* the sort key (hasMaterial, materialGroup, elementClass), compared as tuples
SortKeyLess(x, y) ==
    \/ x.hasMaterial < y.hasMaterial
    \/ /\ x.hasMaterial = y.hasMaterial
       /\ \/ StrLess(x.materialGroup, y.materialGroup)
          \/ /\ x.materialGroup = y.materialGroup
             /\ StrLess(x.elementClass, y.elementClass)

\* x placed after every entry whose key is not greater (list.sort is stable)
RECURSIVE InsertSorted(_, _)
InsertSorted(sorted, x) ==
    IF sorted = <<>> THEN <<x>>
    ELSE IF SortKeyLess(x, Head(sorted)) THEN <<x>> \o sorted
    ELSE <<Head(sorted)>> \o InsertSorted(Tail(sorted), x)

\* result.sort(key=...)
RECURSIVE SortResult(_)
SortResult(list) ==
    IF list = <<>> THEN <<>>
    ELSE InsertSorted(SortResult(SubSeq(list, 1, Len(list) - 1)), list[Len(list)])

\* the formatting loop and the sort
FormatResult(gs, density) ==
    SortResult([i \in 1..Len(gs) |-> FormatGroup(gs[i], density)])

\* the for-loop from the k-th element on; None when an iteration raises
RECURSIVE RunLoop(_, _, _)
RunLoop(es, k, gs) ==
    IF k > Len(es) THEN Some(gs)
    ELSE IF es[k].raises THEN None
    ELSE RunLoop(es, k + 1, AddElement(gs, es[k]))

\* a file's bytes: whether ifcopenshell.open can parse them, and the
\* IfcElement entities filter_elements returns
Ifc(parses, ts) == [parses |-> parses, elements |-> MkElements(ts)]

\* the whole call; status tells a return from the two ways of raising
process_ifc_materials(file, density) ==
    IF ~file.parses THEN [status |-> "open_error", groups |-> <<>>]
    ELSE LET gs == RunLoop(file.elements, 1, <<>>)
         IN  IF gs = None THEN [status |-> "element_error", groups |-> <<>>]
             ELSE [status |-> "ok", groups |-> FormatResult(Get(gs), density)]

----------------------------------------------------------------------------
\* export_csv: the rows of the CSV file

\* ', '.join(parts)
RECURSIVE Join(_)
Join(parts) ==
    IF parts = <<>> THEN ""
    ELSE IF Len(parts) = 1 THEN parts[1]
    ELSE parts[1] \o ", " \o Join(Tail(parts))

\* generate_notes
generate_notes(group) ==
    IF ~group.missingQuantities THEN ""
    ELSE LET area_part == IF group.totalArea = None \/ group.totalArea = Some(0)
                          THEN <<"missing area">> ELSE <<>>
             volume_part == IF group.totalVolume = None \/ group.totalVolume = Some(0)
                            THEN <<"missing volume">> ELSE <<>>
             missing_parts == area_part \o volume_part
         IN  IF missing_parts # <<>>
             THEN "Missing quantities: " \o Join(missing_parts)
             ELSE ""

\* f"{x:.2f}" of a whole number, "" for None
Fixed2(o) == IF o # None THEN ToString(Get(o)) \o ".00" ELSE ""

\* f"{x:.0f}" of a whole number
Fixed0(x) == ToString(x)

CsvHeader ==
    <<"MaterialGroup", "ElementCount", "TotalArea_m2", "TotalVolume_m3",
      "Density_kg_m3", "TotalWeight_kg", "Notes">>

\* the row written for one group
CsvRow(group) ==
    <<group.materialGroup, group.elementCount, Fixed2(group.totalArea),
      Fixed2(group.totalVolume), Fixed0(group.density), Fixed2(group.totalWeight),
      generate_notes(group)>>

\* the header and one row per group of material_summary
CsvRows(material_summary) ==
    <<CsvHeader>> \o [i \in 1..Len(material_summary) |-> CsvRow(material_summary[i])]

----------------------------------------------------------------------------
\* SpecAgg: one run of process_ifc_materials on an opened model

Densities == {2400, 7850}

\* uuid4 values
FileIds == {"f1", "f2"}

InitAgg ==
    /\ elements \in {MkElements(ts) : ts \in SeqsUpTo(Templates, MaxElems)}
    /\ default_density \in Densities
    /\ idx = 0
    /\ groups = <<>>
    /\ result = None
    /\ aggpc = "loop"
    \* the store takes no part in a single run: it stays empty
    /\ content = [f \in FileIds |-> None]
    /\ metadata = [f \in FileIds |-> None]
    /\ ifcFile = [f \in FileIds |-> FALSE]
    /\ glbFile = [f \in FileIds |-> FALSE]
    /\ jsonFile = [f \in FileIds |-> None]
    /\ req = <<>>
    /\ response = [kind |-> "none", file |-> "f1", status |-> 0, body |-> <<>>]
    /\ ran = [op |-> "none", file |-> "f1", req |-> 0]
    /\ csv = <<>>

\* lines 137-162 for one element
AggIterate ==
    /\ aggpc = "loop"
    /\ idx < Len(elements)
    /\ ~elements[idx + 1].raises
    /\ groups' = AddElement(groups, elements[idx + 1])
    /\ idx' = idx + 1
    /\ UNCHANGED <<elements, default_density, result, aggpc>>

\* an exception in the loop body leaves the function
AggRaise ==
    /\ aggpc = "loop"
    /\ idx < Len(elements)
    /\ elements[idx + 1].raises
    /\ aggpc' = "raised"
    /\ UNCHANGED <<elements, default_density, idx, groups, result>>

\* lines 164-200
AggReturn ==
    /\ aggpc = "loop"
    /\ idx = Len(elements)
    /\ result' = Some(FormatResult(groups, default_density))
    /\ aggpc' = "done"
    /\ UNCHANGED <<elements, default_density, idx, groups>>

\* export_csv's row loop over the list the run returned (export.py lines 71-114)
AggExport ==
    /\ aggpc = "done"
    /\ csv' = CsvRows(Get(result))
    /\ aggpc' = "exported"
    /\ UNCHANGED <<elements, default_density, idx, groups, result>>

----------------------------------------------------------------------------
\* The files that can be uploaded

CorruptIfc == Ifc(FALSE, <<>>)
EmptyIfc == Ifc(TRUE, <<>>)
ModelSkip == Ifc(TRUE, <<TNoMesh, TSteelZero, TNoMesh>>)
ModelRaises == Ifc(TRUE, <<TWoodA, TRaises>>)

ModelCatalogue == {CorruptIfc, EmptyIfc, ModelSkip, ModelRaises}

Requests == 1..NumRequests

----------------------------------------------------------------------------
\* get_glb: the mesh-export loop

\* express_id_map[mesh_index] = express_id
DictSet(d, k, v) == [i \in DOMAIN d \cup {k} |-> IF i = k THEN v ELSE d[i]]

EmptyDict == [i \in {} |-> 0]

\* the for-loop of get_glb from the k-th element on;
\* returns [express_id_map, skipped_ids]
RECURSIVE MeshLoop(_, _, _, _, _)
MeshLoop(es, k, mesh_index, express_id_map, skipped_ids) ==
    IF k > Len(es)
    THEN [express_id_map |-> express_id_map, skipped_ids |-> skipped_ids]
    ELSE LET map1 == DictSet(express_id_map, mesh_index, es[k].id)
         IN  IF es[k].meshes
             THEN MeshLoop(es, k + 1, mesh_index + 1, map1, skipped_ids)
             ELSE MeshLoop(es, k + 1, mesh_index, map1, skipped_ids \cup {es[k].id})

----------------------------------------------------------------------------
\* FileStorage

\* the record save_file stores; optional keys are Optional fields
NewRecord(file_id) ==
    [file_path |-> file_id, glb_path |-> None, json_path |-> None,
     skipped_ids |-> None, material_summary |-> None]

InStore(file_id) == metadata[file_id] # None

get_file_path(file_id) ==
    IF InStore(file_id) /\ ifcFile[file_id] THEN Some(Get(metadata[file_id]).file_path) ELSE None

get_skipped_ids(file_id) ==
    IF InStore(file_id) /\ Get(metadata[file_id]).skipped_ids # None
    THEN Get(Get(metadata[file_id]).skipped_ids)
    ELSE {}

get_material_summary(file_id) ==
    IF InStore(file_id) THEN Get(metadata[file_id]).material_summary ELSE None

\* a slip: the key is set without the guard, through a record made on demand
SetKey_NoGuard(md, file_id, key, value) ==
    [md EXCEPT ![file_id] =
        Some([(IF @ # None THEN Get(@) ELSE NewRecord(file_id)) EXCEPT ![key] = Some(value)])]

\* the metadata after self._metadata[file_id][key] = value, guarded by
\* "if file_id in self._metadata"
SetKey(md, file_id, key, value) ==
    IF md[file_id] # None
    THEN [md EXCEPT ![file_id] = Some([Get(@) EXCEPT ![key] = Some(value)])]
    ELSE md

\* a slip: the summary is stored for every file, not for file_id alone
save_material_summary_AllFiles(md, file_id, summary) ==
    [f \in DOMAIN md |->
        IF md[f] # None THEN Some([Get(md[f]) EXCEPT !.material_summary = Some(summary)])
        ELSE md[f]]

save_material_summary(md, file_id, summary) == SetKey(md, file_id, "material_summary", summary)

\* a slip: the skip set is stored for every file, not for file_id alone
save_skipped_ids_AllFiles(md, file_id, skipped_ids) ==
    [f \in DOMAIN md |->
        IF md[f] # None THEN Some([Get(md[f]) EXCEPT !.skipped_ids = Some(skipped_ids)])
        ELSE md[f]]

save_skipped_ids(md, file_id, skipped_ids) == SetKey(md, file_id, "skipped_ids", skipped_ids)
save_glb_path(md, file_id) == SetKey(md, file_id, "glb_path", file_id)
save_json_path(md, file_id) == SetKey(md, file_id, "json_path", file_id)

Idle == [pc |-> "idle", file |-> "f1", summary |-> <<>>]

NoRun == [op |-> "none", file |-> "f1", req |-> 0]
Run(op, file_id, r) == [op |-> op, file |-> file_id, req |-> r]

Response(kind, file_id, status, body) ==
    [kind |-> kind, file |-> file_id, status |-> status, body |-> body]

NoResponse == Response("none", "f1", 0, <<>>)

\* request slots are anonymous: a new request takes the lowest idle one
FreeSlot(r) ==
    /\ req[r].pc = "idle"
    /\ \A q \in Requests : q < r => req[q].pc # "idle"

\* uuid4 values are fresh and interchangeable: they are named in the order
\* save_file draws them
NextFileId(f) ==
    /\ content[f] = None
    /\ f = "f2" => content["f1"] # None

Init ==
    /\ content = [f \in FileIds |-> None]
    /\ metadata = [f \in FileIds |-> None]
    /\ ifcFile = [f \in FileIds |-> FALSE]
    /\ glbFile = [f \in FileIds |-> FALSE]
    /\ jsonFile = [f \in FileIds |-> None]
    /\ req = [r \in Requests |-> Idle]
    /\ response = NoResponse
    /\ ran = NoRun
    /\ csv = <<>>
    /\ elements = <<>>
    /\ default_density = 2400
    /\ idx = 0
    /\ groups = <<>>
    /\ result = None
    /\ aggpc = "off"

\* upload_ifc with an accepted file: save_file under a fresh uuid
Upload(f, c) ==
    /\ NextFileId(f)
    /\ content' = [content EXCEPT ![f] = Some(c)]
    /\ ifcFile' = [ifcFile EXCEPT ![f] = TRUE]
    /\ metadata' = [metadata EXCEPT ![f] = Some(NewRecord(f))]
    /\ ran' = NoRun
    /\ response' = NoResponse
    /\ UNCHANGED <<glbFile, jsonFile, req>>
    /\ csv' = <<>>
    /\ UNCHANGED aggVars

\* FileStorage.delete_file on a stored id
DeleteFile(f) ==
    /\ InStore(f)
    /\ ifcFile' = [ifcFile EXCEPT ![f] = FALSE]
    /\ glbFile' = [glbFile EXCEPT ![f] = IF Get(metadata[f]).glb_path # None THEN FALSE ELSE @]
    /\ jsonFile' = [jsonFile EXCEPT ![f] = IF Get(metadata[f]).json_path # None THEN None ELSE @]
    /\ metadata' = [metadata EXCEPT ![f] = None]
    /\ ran' = NoRun
    /\ response' = NoResponse
    /\ UNCHANGED <<content, req>>
    /\ csv' = <<>>
    /\ UNCHANGED aggVars

\* FileStorage.delete_glb when the .glb file exists
DeleteGlb(f) ==
    /\ glbFile[f]
    /\ glbFile' = [glbFile EXCEPT ![f] = FALSE]
    /\ metadata' = IF InStore(f)
                   THEN [metadata EXCEPT ![f] = Some([Get(@) EXCEPT !.glb_path = None])]
                   ELSE metadata
    /\ ran' = NoRun
    /\ response' = NoResponse
    /\ UNCHANGED <<content, ifcFile, jsonFile, req>>
    /\ csv' = <<>>
    /\ UNCHANGED aggVars

----------------------------------------------------------------------------
\* Request handlers

DefaultDensity == 2400

\* "if cached:" -- None and the empty list are both falsy
CacheHit(cached) == cached # None /\ Get(cached) # <<>>

\* get_material_summary (api/summary.py) up to the call of process_ifc_materials
SummaryRequest(r, f) ==
    /\ FreeSlot(r)
    /\ IF get_file_path(f) = None
       THEN /\ response' = Response("summary", f, 404, <<>>)
            /\ ran' = NoRun
            /\ req' = req
       ELSE IF CacheHit(get_material_summary(f))
       THEN /\ response' = Response("summary", f, 200, Get(get_material_summary(f)))
            /\ ran' = NoRun
            /\ req' = req
       ELSE LET summary == process_ifc_materials(Get(content[f]), DefaultDensity)
            IN  /\ ran' = Run("summary", f, r)
                /\ IF summary.status = "ok"
                   THEN /\ req' = [req EXCEPT ![r] = [pc |-> "save_summary", file |-> f,
                                                     summary |-> summary.groups]]
                        /\ response' = NoResponse
                   ELSE /\ req' = req
                        /\ response' = Response("summary", f, 500, <<>>)
    /\ UNCHANGED <<content, metadata, ifcFile, glbFile, jsonFile>>
    /\ csv' = <<>>
    /\ UNCHANGED aggVars

\* get_material_summary from save_material_summary to the return
SummarySave(r) ==
    /\ req[r].pc = "save_summary"
    /\ metadata' = save_material_summary(metadata, req[r].file, req[r].summary)
    /\ response' = Response("summary", req[r].file, 200, req[r].summary)
    /\ req' = [req EXCEPT ![r] = Idle]
    /\ ran' = NoRun
    /\ UNCHANGED <<content, ifcFile, glbFile, jsonFile>>
    /\ csv' = <<>>
    /\ UNCHANGED aggVars

\* a slip: the test of the .glb file has lost its not
GlbMissing_Always(f) == glbFile[f] \/ jsonFile[f] = None

\* "if not glb_path.exists() or not Path(json_path).exists()"
GlbMissing(f) == ~glbFile[f] \/ jsonFile[f] = None

\* get_glb up to ifcopenshell.open
GlbRequest(r, f) ==
    /\ FreeSlot(r)
    /\ IF get_file_path(f) = None
       THEN /\ response' = Response("glb", f, 404, <<>>)
            /\ req' = req
       ELSE IF ~GlbMissing(f)
       THEN /\ response' = Response("glb", f, 200, <<>>)
            /\ req' = req
       ELSE IF ~Get(content[f]).parses
       THEN /\ response' = Response("glb", f, 500, <<>>)
            /\ req' = req
       ELSE /\ req' = [req EXCEPT ![r] = [pc |-> "export_glb", file |-> f, summary |-> <<>>]]
            /\ response' = NoResponse
    /\ ran' = NoRun
    /\ UNCHANGED <<content, metadata, ifcFile, glbFile, jsonFile>>
    /\ csv' = <<>>
    /\ UNCHANGED aggVars

\* get_glb from the mesh-export loop to the return
GlbExport(r) ==
    /\ req[r].pc = "export_glb"
    /\ LET f == req[r].file
           out == MeshLoop(Get(content[f]).elements, 1, 0, EmptyDict, {})
       IN  /\ glbFile' = [glbFile EXCEPT ![f] = TRUE]
           /\ jsonFile' = [jsonFile EXCEPT ![f] = Some(out.express_id_map)]
           /\ metadata' = save_json_path(
                              save_glb_path(
                                  save_skipped_ids(metadata, f, out.skipped_ids), f), f)
           /\ response' = Response("glb", f, 200, <<>>)
           /\ ran' = Run("mesh", f, r)
    /\ req' = [req EXCEPT ![r] = Idle]
    /\ UNCHANGED <<content, ifcFile>>
    /\ csv' = <<>>
    /\ UNCHANGED aggVars

\* export_csv (api/export.py)
ExportCsv(f) ==
    /\ IF get_file_path(f) = None
       THEN /\ response' = Response("csv", f, 404, <<>>)
            /\ ran' = NoRun
            /\ csv' = <<>>
       ELSE LET material_summary == process_ifc_materials(Get(content[f]), DefaultDensity)
            IN  /\ ran' = Run("export", f, 0)
                /\ response' = IF material_summary.status = "ok"
                               THEN Response("csv", f, 200, material_summary.groups)
                               ELSE Response("csv", f, 500, <<>>)
                /\ csv' = IF material_summary.status = "ok"
                          THEN CsvRows(material_summary.groups)
                          ELSE <<>>
    /\ UNCHANGED <<content, metadata, ifcFile, glbFile, jsonFile, req>>
    /\ UNCHANGED aggVars

Next ==
    \/ \E f \in FileIds, c \in ModelCatalogue : Upload(f, c)
    \/ \E f \in FileIds : DeleteFile(f)
    \/ \E f \in FileIds : DeleteGlb(f)
    \/ \E r \in Requests, f \in FileIds : SummaryRequest(r, f)
    \/ \E r \in Requests : SummarySave(r)
    \/ \E r \in Requests, f \in FileIds : GlbRequest(r, f)
    \/ \E r \in Requests : GlbExport(r)
    \/ \E f \in FileIds : ExportCsv(f)

Spec == Init /\ [][Next]_vars

NextAgg ==
    \/ AggIterate /\ UNCHANGED <<storeVars, csv>>
    \/ AggRaise /\ UNCHANGED <<storeVars, csv>>
    \/ AggReturn /\ UNCHANGED <<storeVars, csv>>
    \/ AggExport /\ UNCHANGED storeVars

SpecAgg == InitAgg /\ [][NextAgg]_vars

----------------------------------------------------------------------------
\* Properties of one aggregation run (SpecAgg)

Range(seq) == {seq[i] : i \in 1..Len(seq)}

\* the element of the run with the given GlobalId
ElementOf(guid) == CHOOSE e \in Range(elements) : e.GlobalId = guid

NoArea(e) == get_ifcElement_quantities(e)[1] = None
NoVolume(e) == get_ifcElement_quantities(e)[2] = None

\* a present value, or 0
OrZero(o) == IF o = None THEN 0 ELSE Get(o)

\* the accumulator of a key: <<count, area sum, volume sum>>, zeros when absent
Acc(gs, name) ==
    IF GroupIndex(gs, name) = 0 THEN <<0, 0, 0>>
    ELSE LET g == gs[GroupIndex(gs, name)]
         IN  <<g.elementCount, g.totalArea, g.totalVolume>>

\* what an element adds to an accumulator: one element, its full area and volume
Full(e) ==
    <<1, OrZero(get_ifcElement_quantities(e)[1]), OrZero(get_ifcElement_quantities(e)[2])>>

Plus(a, b) == <<a[1] + b[1], a[2] + b[2], a[3] + b[3]>>

\* the step is one loop iteration
Iterates == aggpc = "loop" /\ idx' = idx + 1

\* the key the element is grouped under: its resolved material name, or its class
TargetKey(e) ==
    IF e.materialName # None /\ Get(e.materialName) # <<>>
    THEN Get(e.materialName) ELSE e.cls

AllNames == {Wood, Steel, Concrete, IfcWall, IfcSlab, Unassigned}

\* C2 as stated: an element with N >= 1 materials is added to each of its N
\* material groups; each of them grows by one element and by the element's
\* full area and volume.
C2_FanOut ==
    [][Iterates =>
        \A m \in elements[idx'].materials :
            Acc(groups', m) = Plus(Acc(groups, m), Full(elements[idx']))]_vars

\* C2 amended: an element with N >= 1 materials is added to exactly one
\* group, the one keyed by its resolved material name, or by its class when
\* no name resolves; that group grows by one element and by the element's
\* full area and volume, and no other group changes.
C2_OneGroup ==
    [][Iterates /\ elements[idx'].materials # {} =>
        \A name \in AllNames :
            Acc(groups', name) =
                IF name = TargetKey(elements[idx'])
                THEN Plus(Acc(groups, name), Full(elements[idx']))
                ELSE Acc(groups, name)]_vars

\* a two-material element with area and volume has just been added
C2_Witness ==
    /\ aggpc = "loop"
    /\ idx >= 1
    /\ Cardinality(elements[idx].materials) = 2
    /\ Full(elements[idx]) = <<1, 10, 2>>
    /\ Len(groups) >= 1

\* C3 as stated: an element whose resolution raises is the only one left
\* out; the run completes and returns the groups of all other elements.
C3_Isolation ==
    /\ aggpc # "raised"
    /\ aggpc = "done" =>
          LET others == SelectSeq(elements, LAMBDA e : ~e.raises)
          IN  result = Some(FormatResult(Get(RunLoop(others, 1, <<>>)), default_density))

\* C4: in the returned list every hasMaterial=0 group precedes every
\* hasMaterial=1 group, and within a tier the groups are in ascending
\* lexicographic order of materialGroup.
C4_Sorted ==
    aggpc = "done" =>
        \A i, j \in 1..Len(Get(result)) :
            i < j =>
                LET x == Get(result)[i]
                    y == Get(result)[j]
                IN  /\ x.hasMaterial <= y.hasMaterial
                    /\ x.hasMaterial = y.hasMaterial =>
                          StrLess(x.materialGroup, y.materialGroup)

\* the sort has moved a material group in front of a class group met earlier
C4_Witness ==
    /\ aggpc = "done"
    /\ Len(Get(result)) = 2
    /\ Get(result)[1].hasMaterial = 0
    /\ Get(result)[2].hasMaterial = 1
    /\ groups[1].hasMaterial = 1
    /\ StrLess(Get(result)[2].materialGroup, Get(result)[1].materialGroup)

\* C5: a returned group has missingQuantities exactly when one of its
\* elements has no resolvable area or no resolvable volume; a group whose
\* only element has no area and volume 5 is flagged, has totalArea null and
\* totalVolume at least 5.
C5_MissingFlag ==
    aggpc = "done" =>
        \A i \in 1..Len(Get(result)) :
            LET g == Get(result)[i]
                members == {ElementOf(guid) : guid \in Range(g.elementIds)}
            IN  /\ g.missingQuantities <=> \E e \in members : NoArea(e) \/ NoVolume(e)
                /\ (\A e \in members :
                        NoArea(e) /\ get_ifcElement_quantities(e)[2] = Some(5))
                   => /\ g.missingQuantities
                      /\ g.totalArea = None
                      /\ g.totalVolume # None
                      /\ Get(g.totalVolume) >= 5

\* a group of one element with no area and volume 5, next to an unflagged group
C5_Witness ==
    /\ aggpc = "done"
    /\ \E i, j \in 1..Len(Get(result)) :
          /\ Get(result)[i].elementCount = 1
          /\ NoArea(ElementOf(Get(result)[i].elementIds[1]))
          /\ Get(result)[i].totalVolume = Some(5)
          /\ Get(result)[i].missingQuantities
          /\ ~Get(result)[j].missingQuantities

\* C6 as stated: a returned group whose totalArea or totalVolume is null
\* has missingQuantities true.
C6_NullIsMissing ==
    aggpc = "done" =>
        \A i \in 1..Len(Get(result)) :
            LET g == Get(result)[i]
            IN  g.totalArea = None \/ g.totalVolume = None => g.missingQuantities

\* C7: a returned group's totalWeight is totalVolume * density when
\* totalVolume is not null and null when it is; its density is the
\* default density passed to the run.
C7_Weight ==
    aggpc = "done" =>
        \A i \in 1..Len(Get(result)) :
            LET g == Get(result)[i]
            IN  /\ g.density = default_density
                /\ g.totalVolume # None =>
                      g.totalWeight = Some(Get(g.totalVolume) * g.density)
                /\ g.totalVolume = None => g.totalWeight = None

\* a run at density 2400 returned a group with a weight and one without
C7_Witness ==
    /\ aggpc = "done"
    /\ default_density = 2400
    /\ \E i, j \in 1..Len(Get(result)) :
          /\ Get(result)[i].totalVolume = Some(2)
          /\ Get(result)[i].totalWeight = Some(4800)
          /\ Get(result)[j].totalVolume = None
          /\ Get(result)[j].totalWeight = None

----------------------------------------------------------------------------
\* Properties of the store and the request handlers (Spec)

Uploaded(f) == content[f] # None

\* the list one summary request alone returns for the file
Alone(f) == process_ifc_materials(Get(content[f]), DefaultDensity).groups

\* the GlobalIds that appear in a group of the list
GroupedIds(list) == UNION {Range(list[i].elementIds) : i \in 1..Len(list)}

\* the GlobalIds of the file's elements whose id is in its recorded skip set
SkippedGuids(f) ==
    {e.GlobalId : e \in {x \in Range(Get(content[f]).elements) : x.id \in get_skipped_ids(f)}}

\* the ids of the file's elements for which mesh generation fails
Unmeshed(f) == {e.id : e \in {x \in Range(Get(content[f]).elements) : ~x.meshes}}

\* C1 as stated: when an aggregation has just run for a file, for a summary
\* or an export request, no element whose id is in the skip set recorded for
\* the file is in a group of its result.
C1_SkippedExcluded ==
    \A f \in FileIds :
        /\ (ran.op = "export" /\ ran.file = f /\ response.status = 200)
              => SkippedGuids(f) \cap GroupedIds(response.body) = {}
        /\ (ran.op = "summary" /\ ran.file = f /\ req[ran.req].pc = "save_summary")
              => SkippedGuids(f) \cap GroupedIds(req[ran.req].summary) = {}

\* C8 as stated: while a summary is stored for a file, a summary request
\* for it does not run the aggregation and returns the stored list, whatever
\* that list is; the stored entry goes away only with the file's record.
C8_CacheHit ==
    [][\A f \in FileIds :
          (InStore(f) /\ get_material_summary(f) # None) =>
              /\ ~(ran'.op = "summary" /\ ran'.file = f)
              /\ (response'.kind = "summary" /\ response'.file = f /\ response'.status = 200)
                    => response'.body = Get(get_material_summary(f))
              /\ InStore(f)' => get_material_summary(f)' = get_material_summary(f)]_vars

\* C9: a stored file has an empty skip set while no mesh export has written
\* its id mapping; once a skip set is recorded it is the set of ids whose
\* mesh generation failed and stays the same while the file is stored; a GLB
\* request that finds the .glb and the .json file does not start a mesh export.
C9_SkipSet ==
    /\ [](\A f \in FileIds :
            InStore(f) =>
                /\ jsonFile[f] = None => get_skipped_ids(f) = {}
                /\ Get(metadata[f]).skipped_ids # None => get_skipped_ids(f) = Unmeshed(f))
    /\ [][\A f \in FileIds :
            /\ (InStore(f) /\ Get(metadata[f]).skipped_ids # None /\ InStore(f)')
                  => /\ Get(metadata'[f]).skipped_ids # None
                     /\ get_skipped_ids(f)' = get_skipped_ids(f)
            /\ (glbFile[f] /\ jsonFile[f] # None)
                  => /\ \A r \in Requests :
                          req[r].pc = "idle" =>
                              ~(req'[r].pc = "export_glb" /\ req'[r].file = f)
                     /\ (response'.kind = "glb" /\ response'.file = f /\ InStore(f))
                          => response'.status = 200]_vars

\* a GLB request was served from the files on disk, without a mesh export,
\* for a file whose recorded skip set has two ids
C9_Witness ==
    \E f \in FileIds :
        /\ InStore(f)
        /\ Get(metadata[f]).skipped_ids = Some({1, 3})
        /\ response = Response("glb", f, 200, <<>>)
        /\ ran = NoRun

Finishes(f) ==
    \E r \in Requests : req[r].pc # "idle" /\ req[r].file = f /\ req'[r].pc = "idle"

\* C11: a summary or CSV-export request for a file id with no record (never
\* uploaded, or deleted) is answered 404 and runs no aggregation, and no
\* step other than the upload that draws the id gives such an id a record,
\* the saves of a request that was in flight when the file was deleted
\* included.
C11_UnknownStaysUnknown ==
    [][\A f \in FileIds :
          ~InStore(f) =>
              /\ (response'.file = f /\ response'.kind \in {"summary", "csv"} /\ ~Finishes(f))
                    => response'.status = 404
              /\ ~(ran'.op \in {"summary", "export"} /\ ran'.file = f)
              /\ \A r \in Requests :
                    req[r].pc = "idle" => ~(req'[r].pc = "save_summary" /\ req'[r].file = f)
              /\ InStore(f)' => content[f] = None /\ content'[f] # None]_vars

\* a request that was in flight when its file was deleted has just run its
\* saves: the file has no record, and the other id was never
\* uploaded
C11_Witness ==
    \E f \in FileIds :
        /\ Uploaded(f)
        /\ ~InStore(f)
        /\ jsonFile[f] # None
        /\ response = Response("glb", f, 200, <<>>)
        /\ ran.op = "mesh"
        /\ \E g \in FileIds : ~Uploaded(g) /\ ~InStore(g)

\* C12: a step changes the metadata record of at most one file, and a
\* handler that finishes changes no record but that of its own file: the
\* file path, the cached summary and the skip set of every other file are
\* as before.
C12_OtherFilesUnchanged ==
    [][\A a \in FileIds :
          metadata'[a] # metadata[a] =>
              /\ \A b \in FileIds \ {a} : metadata'[b] = metadata[b]
              /\ \A r \in Requests :
                    (req[r].pc # "idle" /\ req'[r].pc = "idle") => req[r].file = a]_vars

\* a mesh export for one file has just recorded its skip set while the
\* other file holds a cached summary and a different skip set
C12_Witness ==
    \E a, b \in FileIds :
        /\ a # b
        /\ InStore(a) /\ InStore(b)
        /\ ran.op = "mesh" /\ ran.file = a
        /\ get_skipped_ids(a) = {1, 3}
        /\ Get(metadata[b]).skipped_ids = Some({})
        /\ get_material_summary(b) # None
        /\ get_material_summary(a) = None

NoteTexts ==
    {"Missing quantities: missing area", "Missing quantities: missing volume",
     "Missing quantities: missing area, missing volume"}

\* C13 as stated: the Notes field of a group's CSV row is non-empty and
\* names the missing quantity when the group's missingQuantities is true,
\* and is empty when it is false.
C13_Notes ==
    aggpc = "exported" =>
        /\ Len(csv) = Len(Get(result)) + 1
        /\ \A i \in 1..Len(Get(result)) :
              IF Get(result)[i].missingQuantities
              THEN csv[i + 1][7] \in NoteTexts
              ELSE csv[i + 1][7] = ""

\* C14: the run over (A: Wood, area 5, volume 1), (B: Wood, area 3, no
\* volume), (C: no material, IfcWall, no area, volume 2) at density 2400
\* returns exactly two groups: Wood with 2 elements, area 8, volume 1, weight
\* 2400, flagged; then IfcWall with 1 element, null area, volume 2, weight
\* 4800, flagged.
C14_Scenario ==
    (/\ aggpc = "done"
     /\ elements = MkElements(<<TWoodA, TWoodB, TWallC>>)
     /\ default_density = 2400) =>
        LET r == Get(result)
        IN  /\ Len(r) = 2
            /\ r[1].materialGroup = Wood /\ r[1].hasMaterial = 0
            /\ r[1].elementCount = 2
            /\ r[1].totalArea = Some(8) /\ r[1].totalVolume = Some(1)
            /\ r[1].totalWeight = Some(2400) /\ r[1].missingQuantities
            /\ r[1].elementIds = <<Guid(1), Guid(2)>>
            /\ r[2].materialGroup = IfcWall /\ r[2].hasMaterial = 1
            /\ r[2].elementCount = 1
            /\ r[2].totalArea = None /\ r[2].totalVolume = Some(2)
            /\ r[2].totalWeight = Some(4800) /\ r[2].missingQuantities
            /\ r[2].elementIds = <<Guid(3)>>

\* the run over A, B, C at density 2400 has returned
C14_Witness ==
    /\ aggpc = "done"
    /\ elements = MkElements(<<TWoodA, TWoodB, TWallC>>)
    /\ default_density = 2400
    /\ idx = 3
    /\ Len(Get(result)) = 2

\* the value of the first entry of the given type in scan order, None when
\* the scan finds no entry of the type
FirstTyped(qs, type) ==
    LET typed == {i \in 1..Len(qs) : qs[i].type = type}
    IN  IF typed = {} THEN None
        ELSE qs[CHOOSE i \in typed : \A j \in typed : i <= j].value

\* the probes of the fallback in order: every Qto_ property set in turn, each
\* with the names in preference order
Probes(ps, names) ==
    {<<p, n>> \in (1..Len(ps)) \X (1..Len(names)) : StartsWithQto(ps[p].name)}

ProbeValue(ps, names, pr) == DictGet(ps[pr[1]].data, names[pr[2]])

ProbeBefore(a, b) == a[1] < b[1] \/ (a[1] = b[1] /\ a[2] < b[2])

\* the first present non-falsy value of the probes, None when there is none
FirstNonFalsy(ps, names) ==
    LET hits == {pr \in Probes(ps, names) : Truthy(ProbeValue(ps, names, pr))}
    IN  IF hits = {} THEN None
        ELSE ProbeValue(ps, names,
                 CHOOSE pr \in hits : \A o \in hits \ {pr} : ProbeBefore(pr, o))

\* the quantity C15 describes for one element
Resolved(e, type, names) ==
    IF FirstTyped(e.quantities, type) # None
    THEN FirstTyped(e.quantities, type)
    ELSE FirstNonFalsy(e.psets, names)

\* C15 as stated: for every element the loop has read, area and volume are
\* each the value of the first typed entry of the primary scan when there is
\* one, and otherwise the first present non-falsy value the Qto_ property
\* sets hold under the preference-ordered names, null only when there is none.
C15_Resolution ==
    \A i \in 1..idx :
        get_ifcElement_quantities(elements[i]) =
            <<Resolved(elements[i], "IfcQuantityArea", AreaNames),
              Resolved(elements[i], "IfcQuantityVolume", VolumeNames)>>

\* the ExpressIDs of the file's elements that mesh, in loop order
MeshedIds(f) ==
    LET es == Get(content[f]).elements
        ok == SelectSeq(es, LAMBDA e : e.meshes)
    IN  [i \in 1..Len(ok) |-> ok[i].id]

\* C16 as stated: when the mesh-export loop has just run for a file, the map
\* it saved has exactly the keys 0..k-1 for the k elements that meshed, key i
\* maps to the ExpressID of the i-th of them, and no ExpressID of the saved
\* skip set is a value of the map.
C16_MeshIndexMap ==
    \A f \in FileIds :
        (ran.op = "mesh" /\ ran.file = f) =>
            LET map == Get(jsonFile[f])
                ids == MeshedIds(f)
            IN  /\ DOMAIN map = 0..(Len(ids) - 1)
                /\ \A i \in DOMAIN map \cap 0..(Len(ids) - 1) : map[i] = ids[i + 1]
                /\ InStore(f) =>
                      {map[i] : i \in DOMAIN map} \cap get_skipped_ids(f) = {}

\* the elements of the run listed in a returned group
Members(g) == {ElementOf(g.elementIds[k]) : k \in 1..Len(g.elementIds)}

\* the element had a resolvable material name
ByMaterial(e) == get_element_group_key(e)[1] = 0

\* C17 as stated: the keys of the returned groups are pairwise distinct, a
\* group has hasMaterial 0 exactly when every element in it had a resolvable
\* material name, and hasMaterial 1 exactly when every element in it was
\* grouped by its class; a group never mixes the two kinds.
C17_Homogeneous ==
    aggpc = "done" =>
        LET r == Get(result)
        IN  /\ \A i, j \in 1..Len(r) : i # j => r[i].materialGroup # r[j].materialGroup
            /\ \A i \in 1..Len(r) :
                  /\ r[i].hasMaterial = 0 <=> \A e \in Members(r[i]) : ByMaterial(e)
                  /\ r[i].hasMaterial = 1 <=> \A e \in Members(r[i]) : ~ByMaterial(e)

====
